---- MODULE Spec2Model ----
(***************************************************************************)
(* The regex pool of engine/src/rhs_types/regex/imp_pool.rs.               *)
(*                                                                         *)
(* Regex is a wrapper around Arc<regex::bytes::Regex>.  REGEX_POOL is a    *)
(* Mutex<HashSet<Regex>>.  Regex::from_str compiles the text, locks the    *)
(* pool and returns a clone of pool.get_or_insert(regex).  Drop for Regex  *)
(* tests strong_count == 2 && weak_count == 0 and, when both hold, takes a *)
(* weak reference, locks the pool and removes the entry equal to self.     *)
(*                                                                         *)
(* Every atomic access of the code is one step of one thread: a load of    *)
(* the strong or the weak count, Arc::downgrade, Arc::clone, the decrement *)
(* that ends a drop, Mutex::lock, the unlock, and each HashSet operation   *)
(* (made with the lock held).                                              *)
(***************************************************************************)
EXTENDS Naturals, FiniteSets, Sequences

\* ------------------------------------------------------------- bounds
\* Threads of the concurrent-parse and concurrent-release scenarios.
NThreads == 3
\* Threads of the unrestricted specification.
NMain == 2
\* Arc allocations (compilations) in one behaviour.
MaxMatchers == 3
\* Caller-owned Handles alive at one time.
MaxHandles == 3
\* Valid pattern texts callers pass to from_str in the unrestricted specification.
NTexts == 2

Threads == 1..NThreads
MainThreads == 1..NMain
Ids == 1..MaxMatchers
NoId == 0
NoText == ""

\* Valid pattern texts, all different.
ValidSeq == <<"abc", "x", "^foo", "\\xff", "a|b", "[0-9]+">>
ValidTexts == {ValidSeq[i] : i \in 1..Len(ValidSeq)}
InvalidTexts == {"a(b"}
\* The texts from_str is called with in the unrestricted specification.
InputTexts == {ValidSeq[i] : i \in 1..NTexts} \cup InvalidTexts

\* RegexBuilder::new(s).unicode(false).build(): Ok for a valid pattern, Err otherwise.
BuildOk(s) == s \in ValidTexts

VARIABLES
    strong,      \* Arc strong count of each allocation (0: not allocated, or destroyed)
    weak,        \* Arc::weak_count of each allocation
    text,        \* as_str() of each allocation
    pool,        \* REGEX_POOL's HashSet: the allocations its entries point to
    lockHolder,  \* the thread holding REGEX_POOL's mutex, 0 when free
    handles,     \* caller-owned alive Handles per allocation
    nextId,      \* the next allocation
    pc,          \* each thread's position
    arg,         \* from_str's s
    regex,       \* from_str's local regex
    entry,       \* the reference get_or_insert returned
    self,        \* drop's self (the outer drop)
    inner,       \* self of a drop that runs inside a HashSet operation
    cont,        \* where such a drop returns to
    ret          \* what the thread's last from_str returned

vars == <<strong, weak, text, pool, lockHolder, handles, nextId,
          pc, arg, regex, entry, self, inner, cont, ret>>

shared == <<strong, weak, text, pool, lockHolder, handles, nextId>>

\* ------------------------------------------------------------ helpers
\* from_str's Result<Self, Error>: Ok(Regex) or Err(Error); NoRet before any return.
Ok(i) == [tag |-> "Ok", id |-> i]
Err == [tag |-> "Err", id |-> NoId]
NoRet == [tag |-> "none", id |-> NoId]

\* Eq and Hash of Regex compare the pattern text (as_str).
RegexEq(a, b) == text[a] = text[b]

\* The pool's entry equal to allocation r, as a set (empty or one entry).
Lookup(r) == {e \in pool : RegexEq(e, r)}

NumHandles == LET RECURSIVE Sum(_)
                  Sum(S) == IF S = {} THEN 0
                            ELSE LET i == CHOOSE x \in S : TRUE
                                 IN handles[i] + Sum(S \ {i})
              IN Sum(Ids)

Init ==
    /\ strong = [i \in Ids |-> 0]
    /\ weak = [i \in Ids |-> 0]
    /\ text = [i \in Ids |-> NoText]
    /\ pool = {}
    /\ lockHolder = 0
    /\ handles = [i \in Ids |-> 0]
    /\ nextId = 1
    /\ pc = [t \in Threads |-> "idle"]
    /\ arg = [t \in Threads |-> NoText]
    /\ regex = [t \in Threads |-> NoId]
    /\ entry = [t \in Threads |-> NoId]
    /\ self = [t \in Threads |-> NoId]
    /\ inner = [t \in Threads |-> NoId]
    /\ cont = [t \in Threads |-> "none"]
    /\ ret = [t \in Threads |-> NoRet]

\* The Arc's field drop that ends every Drop::drop: the strong count goes down
\* by one, and the regex is destroyed at 0.
DecStrong(i) ==
    /\ strong' = [strong EXCEPT ![i] = @ - 1]
    /\ text' = IF strong[i] = 1 THEN [text EXCEPT ![i] = NoText] ELSE text

\* ----------------------------------------------------------- from_str
\* A caller enters from_str(s).
FromStrCall(t, s) ==
    /\ pc[t] = "idle"
    /\ pc' = [pc EXCEPT ![t] = "fs_build"]
    /\ arg' = [arg EXCEPT ![t] = s]
    /\ ret' = [ret EXCEPT ![t] = NoRet]
    /\ UNCHANGED <<shared, regex, entry, self, inner, cont>>

\* FsBuild whose regex keeps a canonical text instead of the text given.
FsBuildCanonicalText(t) ==
    /\ pc[t] = "fs_build"
    /\ IF BuildOk(arg[t])
       THEN /\ nextId <= MaxMatchers
            /\ strong' = [strong EXCEPT ![nextId] = 1]
            /\ text' = [text EXCEPT ![nextId] = ValidSeq[1]]
            /\ nextId' = nextId + 1
            /\ regex' = [regex EXCEPT ![t] = nextId]
            /\ pc' = [pc EXCEPT ![t] = "fs_lock"]
            /\ UNCHANGED <<ret, arg>>
       ELSE /\ ret' = [ret EXCEPT ![t] = Err]
            /\ pc' = [pc EXCEPT ![t] = "idle"]
            /\ arg' = [arg EXCEPT ![t] = NoText]
            /\ UNCHANGED <<strong, text, nextId, regex>>
    /\ UNCHANGED <<weak, pool, lockHolder, handles, entry, self, inner, cont>>

\* FsBuild with the Arc made and put in the pool before the build's result is
\* looked at: an invalid text leaves an entry behind.
FsBuildInsertsFirst(t) ==
    /\ pc[t] = "fs_build"
    /\ nextId <= MaxMatchers
    /\ strong' = [strong EXCEPT ![nextId] = 1]
    /\ text' = [text EXCEPT ![nextId] = arg[t]]
    /\ nextId' = nextId + 1
    /\ IF BuildOk(arg[t])
       THEN /\ regex' = [regex EXCEPT ![t] = nextId]
            /\ pc' = [pc EXCEPT ![t] = "fs_lock"]
            /\ UNCHANGED <<ret, arg, pool>>
       ELSE /\ pool' = pool \cup {nextId}
            /\ ret' = [ret EXCEPT ![t] = Err]
            /\ pc' = [pc EXCEPT ![t] = "idle"]
            /\ arg' = [arg EXCEPT ![t] = NoText]
            /\ UNCHANGED regex
    /\ UNCHANGED <<weak, lockHolder, handles, entry, self, inner, cont>>

\* Self(Arc::new(RegexBuilder::new(s).unicode(false).build()?)).
FsBuild(t) ==
    /\ pc[t] = "fs_build"
    /\ IF BuildOk(arg[t])
       THEN /\ nextId <= MaxMatchers
            /\ strong' = [strong EXCEPT ![nextId] = 1]
            /\ text' = [text EXCEPT ![nextId] = arg[t]]
            /\ nextId' = nextId + 1
            /\ regex' = [regex EXCEPT ![t] = nextId]
            /\ pc' = [pc EXCEPT ![t] = "fs_lock"]
            /\ UNCHANGED <<ret, arg>>
       ELSE /\ ret' = [ret EXCEPT ![t] = Err]
            /\ pc' = [pc EXCEPT ![t] = "idle"]
            /\ arg' = [arg EXCEPT ![t] = NoText]
            /\ UNCHANGED <<strong, text, nextId, regex>>
    /\ UNCHANGED <<weak, pool, lockHolder, handles, entry, self, inner, cont>>

\* let mut pool = REGEX_POOL.lock().unwrap();
FsLock(t) ==
    /\ pc[t] = "fs_lock"
    /\ lockHolder = 0
    /\ lockHolder' = t
    /\ pc' = [pc EXCEPT ![t] = "fs_insert"]
    /\ UNCHANGED <<strong, weak, text, pool, handles, nextId,
                   arg, regex, entry, self, inner, cont, ret>>

\* FsGetOrInsert as a plain insert that does not look the text up first.
FsInsertNoLookup(t) ==
    /\ pc[t] = "fs_insert"
    /\ pool' = pool \cup {regex[t]}
    /\ entry' = [entry EXCEPT ![t] = regex[t]]
    /\ pc' = [pc EXCEPT ![t] = "fs_clone"]
    /\ regex' = [regex EXCEPT ![t] = NoId]
    /\ UNCHANGED <<strong, weak, text, lockHolder, handles, nextId,
                   arg, self, inner, cont, ret>>

\* FsGetOrInsert that takes any entry present for a hit, whatever its text.
FsGetOrInsertAnyEntry(t) ==
    /\ pc[t] = "fs_insert"
    /\ IF pool # {}
       THEN /\ entry' = [entry EXCEPT ![t] = CHOOSE e \in pool : TRUE]
            /\ inner' = [inner EXCEPT ![t] = regex[t]]
            /\ cont' = [cont EXCEPT ![t] = "fs_clone"]
            /\ pc' = [pc EXCEPT ![t] = "in_strong"]
            /\ pool' = pool
       ELSE /\ pool' = pool \cup {regex[t]}
            /\ entry' = [entry EXCEPT ![t] = regex[t]]
            /\ pc' = [pc EXCEPT ![t] = "fs_clone"]
            /\ UNCHANGED <<inner, cont>>
    /\ regex' = [regex EXCEPT ![t] = NoId]
    /\ UNCHANGED <<strong, weak, text, lockHolder, handles, nextId, arg, self, ret>>

\* FsGetOrInsert as HashSet::replace: on a hit the new Regex takes the place of
\* the entry, and the old entry is the one dropped inside the call.
FsGetOrReplace(t) ==
    /\ pc[t] = "fs_insert"
    /\ IF Lookup(regex[t]) # {}
       THEN LET e == CHOOSE x \in Lookup(regex[t]) : TRUE
            IN /\ pool' = (pool \ {e}) \cup {regex[t]}
               /\ entry' = [entry EXCEPT ![t] = regex[t]]
               /\ inner' = [inner EXCEPT ![t] = e]
               /\ cont' = [cont EXCEPT ![t] = "fs_clone"]
               /\ pc' = [pc EXCEPT ![t] = "in_strong"]
       ELSE /\ pool' = pool \cup {regex[t]}
            /\ entry' = [entry EXCEPT ![t] = regex[t]]
            /\ pc' = [pc EXCEPT ![t] = "fs_clone"]
            /\ UNCHANGED <<inner, cont>>
    /\ regex' = [regex EXCEPT ![t] = NoId]
    /\ UNCHANGED <<strong, weak, text, lockHolder, handles, nextId, arg, self, ret>>

\* pool.get_or_insert(regex): on a hit the argument is dropped inside the call
\* and the entry found is returned; on a miss the argument becomes the entry.
FsGetOrInsert(t) ==
    /\ pc[t] = "fs_insert"
    /\ IF Lookup(regex[t]) # {}
       THEN /\ entry' = [entry EXCEPT ![t] = CHOOSE e \in Lookup(regex[t]) : TRUE]
            /\ inner' = [inner EXCEPT ![t] = regex[t]]
            /\ cont' = [cont EXCEPT ![t] = "fs_clone"]
            /\ pc' = [pc EXCEPT ![t] = "in_strong"]
            /\ pool' = pool
       ELSE /\ pool' = pool \cup {regex[t]}
            /\ entry' = [entry EXCEPT ![t] = regex[t]]
            /\ pc' = [pc EXCEPT ![t] = "fs_clone"]
            /\ UNCHANGED <<inner, cont>>
    /\ regex' = [regex EXCEPT ![t] = NoId]
    /\ UNCHANGED <<strong, weak, text, lockHolder, handles, nextId, arg, self, ret>>

\* FsClone that hands out the entry's reference without counting it.
FsCloneNoCount(t) ==
    /\ pc[t] = "fs_clone"
    /\ pc' = [pc EXCEPT ![t] = "fs_ret"]
    /\ UNCHANGED <<shared, arg, regex, entry, self, inner, cont, ret>>

\* .clone() of the entry: Arc::clone.
FsClone(t) ==
    /\ pc[t] = "fs_clone"
    /\ strong' = [strong EXCEPT ![entry[t]] = @ + 1]
    /\ pc' = [pc EXCEPT ![t] = "fs_ret"]
    /\ UNCHANGED <<weak, text, pool, lockHolder, handles, nextId,
                   arg, regex, entry, self, inner, cont, ret>>

\* Ok(..) is returned and the guard `pool` goes out of scope: the caller owns
\* the Handle.
FsReturn(t) ==
    /\ pc[t] = "fs_ret"
    /\ lockHolder' = 0
    /\ handles' = [handles EXCEPT ![entry[t]] = @ + 1]
    /\ ret' = [ret EXCEPT ![t] = Ok(entry[t])]
    /\ entry' = [entry EXCEPT ![t] = NoId]
    /\ arg' = [arg EXCEPT ![t] = NoText]
    /\ pc' = [pc EXCEPT ![t] = "idle"]
    /\ UNCHANGED <<strong, weak, text, pool, nextId, regex, self, inner, cont>>

\* -------------------------------------------------------------- clone
\* Clone that copies the pointer without Arc::clone's increment.
CloneNoCount(t, h) ==
    /\ pc[t] = "idle"
    /\ handles[h] > 0
    /\ NumHandles < MaxHandles
    /\ handles' = [handles EXCEPT ![h] = @ + 1]
    /\ UNCHANGED <<strong, weak, text, pool, lockHolder, nextId,
                   pc, arg, regex, entry, self, inner, cont, ret>>

\* #[derive(Clone)]: a caller clones an alive Handle.
Clone(t, h) ==
    /\ pc[t] = "idle"
    /\ handles[h] > 0
    /\ NumHandles < MaxHandles
    /\ strong' = [strong EXCEPT ![h] = @ + 1]
    /\ handles' = [handles EXCEPT ![h] = @ + 1]
    /\ UNCHANGED <<weak, text, pool, lockHolder, nextId,
                   pc, arg, regex, entry, self, inner, cont, ret>>

\* --------------------------------------------------------------- drop
\* A caller drops an alive Handle: Drop::drop is entered with it as self.
DropCall(t, h) ==
    /\ pc[t] = "idle"
    /\ handles[h] > 0
    /\ handles' = [handles EXCEPT ![h] = @ - 1]
    /\ self' = [self EXCEPT ![t] = h]
    /\ pc' = [pc EXCEPT ![t] = "dr_strong"]
    /\ UNCHANGED <<strong, weak, text, pool, lockHolder, nextId,
                   arg, regex, entry, inner, cont, ret>>

\* DrStrong with the test strong_count >= 2: a release goes on to the removal
\* while other callers still own the regex.
DrStrongAtLeastTwo(t) ==
    /\ pc[t] = "dr_strong"
    /\ pc' = [pc EXCEPT ![t] = IF strong[self[t]] >= 2 THEN "dr_weak" ELSE "dr_dec"]
    /\ UNCHANGED <<shared, arg, regex, entry, self, inner, cont, ret>>

\* DrStrong with the naive test strong_count == 1, which forgets the pool's
\* own reference.
DrStrongNaive(t) ==
    /\ pc[t] = "dr_strong"
    /\ pc' = [pc EXCEPT ![t] = IF strong[self[t]] = 1 THEN "dr_weak" ELSE "dr_dec"]
    /\ UNCHANGED <<shared, arg, regex, entry, self, inner, cont, ret>>

\* Arc::strong_count(&self.0) == 2
DrStrong(t) ==
    /\ pc[t] = "dr_strong"
    /\ pc' = [pc EXCEPT ![t] = IF strong[self[t]] = 2 THEN "dr_weak" ELSE "dr_dec"]
    /\ UNCHANGED <<shared, arg, regex, entry, self, inner, cont, ret>>

\* && Arc::weak_count(&self.0) == 0
DrWeak(t) ==
    /\ pc[t] = "dr_weak"
    /\ pc' = [pc EXCEPT ![t] = IF weak[self[t]] = 0 THEN "dr_downgrade" ELSE "dr_dec"]
    /\ UNCHANGED <<shared, arg, regex, entry, self, inner, cont, ret>>

\* let _dummy_weak = Arc::downgrade(&self.0);
DrDowngrade(t) ==
    /\ pc[t] = "dr_downgrade"
    /\ weak' = [weak EXCEPT ![self[t]] = @ + 1]
    /\ pc' = [pc EXCEPT ![t] = "dr_lock"]
    /\ UNCHANGED <<strong, text, pool, lockHolder, handles, nextId,
                   arg, regex, entry, self, inner, cont, ret>>

\* let mut pool = REGEX_POOL.lock().unwrap();
DrLock(t) ==
    /\ pc[t] = "dr_lock"
    /\ lockHolder = 0
    /\ lockHolder' = t
    /\ pc' = [pc EXCEPT ![t] = "dr_remove"]
    /\ UNCHANGED <<strong, weak, text, pool, handles, nextId,
                   arg, regex, entry, self, inner, cont, ret>>

\* pool.remove(&self): the entry equal to self, if any, leaves the set and is
\* dropped inside the call.
DrRemove(t) ==
    /\ pc[t] = "dr_remove"
    /\ IF Lookup(self[t]) # {}
       THEN LET e == CHOOSE x \in Lookup(self[t]) : TRUE
            IN /\ pool' = pool \ {e}
               /\ inner' = [inner EXCEPT ![t] = e]
               /\ cont' = [cont EXCEPT ![t] = "dr_unlock"]
               /\ pc' = [pc EXCEPT ![t] = "in_strong"]
       ELSE /\ pc' = [pc EXCEPT ![t] = "dr_unlock"]
            /\ UNCHANGED <<pool, inner, cont>>
    /\ UNCHANGED <<strong, weak, text, lockHolder, handles, nextId,
                   arg, regex, entry, self, ret>>

\* DrUnlock that leaves the mutex locked.
DrUnlockKeepsLock(t) ==
    /\ pc[t] = "dr_unlock"
    /\ pc' = [pc EXCEPT ![t] = "dr_unweak"]
    /\ UNCHANGED <<shared, arg, regex, entry, self, inner, cont, ret>>

\* return: the guard `pool` is dropped first (locals go in reverse order).
DrUnlock(t) ==
    /\ pc[t] = "dr_unlock"
    /\ lockHolder' = 0
    /\ pc' = [pc EXCEPT ![t] = "dr_unweak"]
    /\ UNCHANGED <<strong, weak, text, pool, handles, nextId,
                   arg, regex, entry, self, inner, cont, ret>>

\* then _dummy_weak is dropped.
DrUnweak(t) ==
    /\ pc[t] = "dr_unweak"
    /\ weak' = [weak EXCEPT ![self[t]] = @ - 1]
    /\ pc' = [pc EXCEPT ![t] = "dr_dec"]
    /\ UNCHANGED <<strong, text, pool, lockHolder, handles, nextId,
                   arg, regex, entry, self, inner, cont, ret>>

\* After Drop::drop the field self.0 is dropped.
DrDec(t) ==
    /\ pc[t] = "dr_dec"
    /\ DecStrong(self[t])
    /\ self' = [self EXCEPT ![t] = NoId]
    /\ pc' = [pc EXCEPT ![t] = "idle"]
    /\ UNCHANGED <<weak, pool, lockHolder, handles, nextId,
                   arg, regex, entry, inner, cont, ret>>

\* ------------------------------- Drop::drop inside a HashSet operation
\* The same Drop::drop, run by the thread that holds the lock, for the Regex
\* that get_or_insert discards or that remove takes out of the set.
InStrong(t) ==
    /\ pc[t] = "in_strong"
    /\ pc' = [pc EXCEPT ![t] = IF strong[inner[t]] = 2 THEN "in_weak" ELSE "in_dec"]
    /\ UNCHANGED <<shared, arg, regex, entry, self, inner, cont, ret>>

InWeak(t) ==
    /\ pc[t] = "in_weak"
    /\ pc' = [pc EXCEPT ![t] = IF weak[inner[t]] = 0 THEN "in_downgrade" ELSE "in_dec"]
    /\ UNCHANGED <<shared, arg, regex, entry, self, inner, cont, ret>>

InDowngrade(t) ==
    /\ pc[t] = "in_downgrade"
    /\ weak' = [weak EXCEPT ![inner[t]] = @ + 1]
    /\ pc' = [pc EXCEPT ![t] = "in_lock"]
    /\ UNCHANGED <<strong, text, pool, lockHolder, handles, nextId,
                   arg, regex, entry, self, inner, cont, ret>>

\* REGEX_POOL.lock() by the thread that holds REGEX_POOL: std's Mutex is not
\* re-entrant, and on a build with threads the call never returns.
InLock(t) ==
    /\ pc[t] = "in_lock"
    /\ lockHolder = t
    /\ pc' = [pc EXCEPT ![t] = "deadlocked"]
    /\ UNCHANGED <<shared, arg, regex, entry, self, inner, cont, ret>>

InDec(t) ==
    /\ pc[t] = "in_dec"
    /\ DecStrong(inner[t])
    /\ inner' = [inner EXCEPT ![t] = NoId]
    /\ cont' = [cont EXCEPT ![t] = "none"]
    /\ pc' = [pc EXCEPT ![t] = cont[t]]
    /\ UNCHANGED <<weak, pool, lockHolder, handles, nextId,
                   arg, regex, entry, self, ret>>

\* ------------------------------------------------------ specifications
Next ==
    \E t \in MainThreads :
        \/ \E s \in InputTexts : FromStrCall(t, s)
        \/ FsBuild(t)
        \/ FsLock(t)
        \/ FsGetOrInsert(t)
        \/ FsClone(t)
        \/ FsReturn(t)
        \/ \E h \in Ids : Clone(t, h)
        \/ \E h \in Ids : DropCall(t, h)
        \/ DrStrong(t)
        \/ DrWeak(t)
        \/ DrDowngrade(t)
        \/ DrLock(t)
        \/ DrRemove(t)
        \/ DrUnlock(t)
        \/ DrUnweak(t)
        \/ DrDec(t)
        \/ InStrong(t)
        \/ InWeak(t)
        \/ InDowngrade(t)
        \/ InLock(t)
        \/ InDec(t)

\* Any number of threads, any operations, any interleaving.
Spec == Init /\ [][Next]_vars


\* ----------------------------------------- N concurrent parses of one text
\* The text all threads of the concurrent-parse scenario pass to from_str.
ParseText == ValidSeq[1]

\* The pool is empty and each of the NThreads threads has just entered
\* from_str(ParseText).
InitParse ==
    /\ strong = [i \in Ids |-> 0]
    /\ weak = [i \in Ids |-> 0]
    /\ text = [i \in Ids |-> NoText]
    /\ pool = {}
    /\ lockHolder = 0
    /\ handles = [i \in Ids |-> 0]
    /\ nextId = 1
    /\ pc = [t \in Threads |-> "fs_build"]
    /\ arg = [t \in Threads |-> ParseText]
    /\ regex = [t \in Threads |-> NoId]
    /\ entry = [t \in Threads |-> NoId]
    /\ self = [t \in Threads |-> NoId]
    /\ inner = [t \in Threads |-> NoId]
    /\ cont = [t \in Threads |-> "none"]
    /\ ret = [t \in Threads |-> NoRet]

NextParse ==
    \E t \in Threads :
        \/ FsBuild(t)
        \/ FsLock(t)
        \/ FsGetOrInsert(t)
        \/ FsClone(t)
        \/ FsReturn(t)
        \/ InStrong(t)
        \/ InDec(t)

\* NThreads threads call from_str with the same text on an empty pool; no
\* Handle is released.
SpecParse == InitParse /\ [][NextParse]_vars

\* ------------------- N concurrent releases of the last Handles of N texts
\* The state after from_str of NThreads different texts, one Handle each, when
\* each thread has just entered the drop of one of them.
InitRelease ==
    /\ strong = [i \in Ids |-> IF i <= NThreads THEN 2 ELSE 0]
    /\ weak = [i \in Ids |-> 0]
    /\ text = [i \in Ids |-> IF i <= NThreads THEN ValidSeq[i] ELSE NoText]
    /\ pool = {i \in Ids : i <= NThreads}
    /\ lockHolder = 0
    /\ handles = [i \in Ids |-> 0]
    /\ nextId = NThreads + 1
    /\ pc = [t \in Threads |-> "dr_strong"]
    /\ arg = [t \in Threads |-> NoText]
    /\ regex = [t \in Threads |-> NoId]
    /\ entry = [t \in Threads |-> NoId]
    /\ self = [t \in Threads |-> t]
    /\ inner = [t \in Threads |-> NoId]
    /\ cont = [t \in Threads |-> "none"]
    /\ ret = [t \in Threads |-> Ok(t)]

ReleaseStep(t) ==
    \/ DrStrong(t)
    \/ DrWeak(t)
    \/ DrDowngrade(t)
    \/ DrLock(t)
    \/ DrRemove(t)
    \/ DrUnlock(t)
    \/ DrUnweak(t)
    \/ DrDec(t)
    \/ InStrong(t)
    \/ InWeak(t)
    \/ InDec(t)

NextRelease == \E t \in Threads : ReleaseStep(t)

\* Every thread is an OS thread that keeps running: a step it can take for
\* ever is eventually taken.
SpecRelease ==
    InitRelease /\ [][NextRelease]_vars /\ \A t \in Threads : WF_vars(ReleaseStep(t))

\* ------------------------------------------------ one thread, any operations
SeqThread == CHOOSE t \in MainThreads : \A u \in MainThreads : t <= u

NextSeq ==
    \/ \E s \in InputTexts : FromStrCall(SeqThread, s)
    \/ FsBuild(SeqThread)
    \/ FsLock(SeqThread)
    \/ FsGetOrInsert(SeqThread)
    \/ FsClone(SeqThread)
    \/ FsReturn(SeqThread)
    \/ \E h \in Ids : Clone(SeqThread, h)
    \/ \E h \in Ids : DropCall(SeqThread, h)
    \/ DrStrong(SeqThread)
    \/ DrWeak(SeqThread)
    \/ DrDowngrade(SeqThread)
    \/ DrLock(SeqThread)
    \/ DrRemove(SeqThread)
    \/ DrUnlock(SeqThread)
    \/ DrUnweak(SeqThread)
    \/ DrDec(SeqThread)
    \/ InStrong(SeqThread)
    \/ InWeak(SeqThread)
    \/ InDec(SeqThread)

\* A single thread makes any sequence of from_str, clone and drop.
SpecSeq == Init /\ [][NextSeq]_vars


\* -------------------------------------------------------------- claims
AllIdle == \A t \in Threads : pc[t] = "idle"
\* Allocations that exist: made and not destroyed.
Live == {i \in Ids : strong[i] > 0}
\* Allocations some caller-owned alive Handle points to.
Owned == {i \in Ids : handles[i] > 0}
PoolTexts == {text[e] : e \in pool}
OwnedTexts == {text[h] : h \in Owned}
\* Compilations made so far.
Compilations == nextId - 1

\* C1: any two alive caller-owned Handles with equal pattern text reference
\* the same CompiledMatcher.
DedupIdentity ==
    \A i \in Owned : \A j \in Owned : text[i] = text[j] => i = j

\* C2: once every caller-owned Handle for a text has been released and no
\* operation is in progress, the registry holds no entry for that text.
Reclamation ==
    AllIdle => \A e \in pool : text[e] \in OwnedTexts

\* C3: no thread ever attempts to acquire REGEX_POOL while it already holds it.
NoReentrantLock ==
    \A t \in Threads :
        lockHolder = t => pc[t] \notin {"fs_lock", "dr_lock", "in_lock", "deadlocked"}

AtMostOneMatcherPerText ==
    \A i \in Live : \A j \in Live : text[i] = text[j] => i = j

\* C6: from_str of an invalid text returns Err, changes neither the pool's
\* entries nor any reference count, and does not take or keep the lock.
ErrorNonInsertion ==
    [][\A t \in Threads :
          /\ (pc[t] = "idle" /\ pc'[t] = "fs_build" /\ arg'[t] \in InvalidTexts)
                => UNCHANGED <<strong, weak, pool, lockHolder>>
          /\ (pc[t] = "fs_build" /\ arg[t] \in InvalidTexts /\ pc'[t] # pc[t])
                => /\ ret'[t] = Err
                   /\ pc'[t] = "idle"
                   /\ UNCHANGED <<strong, weak, pool, lockHolder>>
                   /\ lockHolder' # t]_vars

\* from_str of an invalid text has returned Err while the pool has an entry
\* and another thread holds the lock.
ErrorReturned ==
    \E t \in Threads :
        /\ ret[t] = Err
        /\ pc[t] = "idle"
        /\ pool # {}
        /\ lockHolder \notin {0, t}

\* C7: if a caller-owned Handle is alive, the registry has an entry for its
\* text and that entry references the Handle's CompiledMatcher.
RegistryCoversLiveHandles ==
    \A h \in Owned : h \in pool

\* C8: N threads parse the same valid text concurrently and release nothing:
\* no call blocks for ever, and when all have returned they all hold Handles
\* to one CompiledMatcher, whose count is N + 1, in a registry of one entry.
ParseConvergence ==
    /\ AllIdle \/ ENABLED NextParse
    /\ AllIdle =>
         \E m \in Ids :
            /\ \A t \in Threads : ret[t] = Ok(m)
            /\ pool = {m}
            /\ strong[m] = NThreads + 1
            /\ handles[m] = NThreads
            /\ lockHolder = 0

\* All N concurrent calls have returned Ok.
ParseConverged ==
    /\ AllIdle
    /\ \A t \in Threads : ret[t].tag = "Ok"
    /\ NumHandles = NThreads

\* C9: N threads release the last Handles of N different texts: under fair
\* scheduling every release completes, the registry ends without those
\* entries and every one of the matchers is destroyed.
LastReleaseProgress ==
    <>[](/\ AllIdle
         /\ pool = {}
         /\ lockHolder = 0
         /\ \A i \in Ids : strong[i] = 0 /\ weak[i] = 0)

\* All N releases have completed.
AllReleased ==
    /\ AllIdle
    /\ pool = {}
    /\ Live = {}
    /\ nextId = NThreads + 1

\* C10: with a single thread, after each operation the texts in the registry
\* are those with an alive Handle, one entry each; the drop never re-enters
\* the lock; a from_str of a text without alive Handle returns the matcher it
\* has just compiled.
SequentialReclamation ==
    /\ pc[SeqThread] = "idle" =>
          /\ PoolTexts = OwnedTexts
          /\ pool = Owned
          /\ lockHolder = 0
    /\ \A e \in pool : \A f \in pool : text[e] = text[f] => e = f
    /\ pc[SeqThread] \notin {"in_downgrade", "in_lock", "deadlocked"}
    /\ (pc[SeqThread] = "fs_ret" /\ arg[SeqThread] \notin OwnedTexts)
          => entry[SeqThread] = nextId - 1

\* Several from_str have been made and every Handle dropped again.
SequentialCyclesDone ==
    /\ pc[SeqThread] = "idle"
    /\ pool = {}
    /\ Live = {}
    /\ nextId > 2


\* The Regex values of allocation i that thread t holds in a local: self of a
\* drop, the Regex a HashSet operation is dropping, from_str's regex, and the
\* clone from_str is about to return.
LocalRefs(t, i) ==
    (IF self[t] = i THEN 1 ELSE 0) + (IF inner[t] = i THEN 1 ELSE 0)
    + (IF regex[t] = i THEN 1 ELSE 0)
    + (IF pc[t] = "fs_ret" /\ entry[t] = i THEN 1 ELSE 0)

InFlight(i) == LET RECURSIVE Sum(_)
                   Sum(S) == IF S = {} THEN 0
                             ELSE LET t == CHOOSE x \in S : TRUE
                                  IN LocalRefs(t, i) + Sum(S \ {t})
               IN Sum(Threads)

RoundTrip ==
    /\ [][\A t \in Threads :
            (pc[t] = "fs_ret" /\ pc'[t] = "idle") =>
                /\ ret'[t].tag = "Ok"
                /\ text'[ret'[t].id] = arg[t]
                /\ handles'[ret'[t].id] = handles[ret'[t].id] + 1]_vars
    /\ [][\A i \in Ids : (strong[i] > 0 /\ strong'[i] > 0) => text'[i] = text[i]]_vars

\* Both threads' from_str returned the same regex of the second text: one
\* inserted it, the other got a clone of the entry.
RoundTripOnHit ==
    /\ AllIdle
    /\ \E m \in Owned :
        /\ text[m] = ValidSeq[2]
        /\ handles[m] = 2
        /\ \A t \in MainThreads : ret[t] = Ok(m)


\* The positions of a release that has passed both tests and goes on to the
\* removal of the entry.
RemovalPcs == {"dr_downgrade", "dr_lock", "dr_remove", "dr_unlock"}
Removing(t) == pc[t] \in RemovalPcs \/ cont[t] = "dr_unlock"

\* C14: the entry of every regex put in the registry is removed exactly once
\* in the regex's lifetime: the regex is never destroyed, nor left without
\* any caller's Handle, with its entry still registered, and no two release
\* attempts go on to remove the entry of the same regex.
ExactlyOnceRemoval ==
    /\ pool \subseteq Live
    /\ AllIdle => pool \subseteq Owned
    /\ \A t \in Threads : \A u \in Threads :
          (t # u /\ Removing(t) /\ Removing(u) /\ self[t] \in pool) => self[t] # self[u]

\* C15: the release that pool.remove makes of the registry's own Handle sees
\* the marker of the outer release (weak count not 0) and so neither locks
\* nor removes again.
MarkedReentrantNoOp ==
    \A t \in Threads :
        cont[t] = "dr_unlock" =>
            /\ weak[inner[t]] # 0
            /\ pc[t] \in {"in_strong", "in_weak", "in_dec"}

\* C16: a release that observes a strong count other than 2, or a marker
\* (weak count other than 0), takes no lock and leaves the registry as it is;
\* all it does is lower that regex's strong count by one.
ReleaseWithOwnersNoRegistry ==
    [][\A t \in Threads :
          /\ (pc[t] = "dr_strong" /\ strong[self[t]] # 2 /\ pc'[t] # pc[t])
                => pc'[t] = "dr_dec" /\ UNCHANGED <<pool, lockHolder, strong, weak>>
          /\ (pc[t] = "dr_weak" /\ weak[self[t]] # 0 /\ pc'[t] # pc[t])
                => pc'[t] = "dr_dec" /\ UNCHANGED <<pool, lockHolder, strong, weak>>
          /\ (pc[t] = "in_strong" /\ strong[inner[t]] # 2 /\ pc'[t] # pc[t])
                => pc'[t] = "in_dec" /\ UNCHANGED <<pool, lockHolder, strong, weak>>
          /\ (pc[t] = "in_weak" /\ weak[inner[t]] # 0 /\ pc'[t] # pc[t])
                => pc'[t] = "in_dec" /\ UNCHANGED <<pool, lockHolder, strong, weak>>
          /\ (pc[t] = "dr_dec" /\ pc'[t] # pc[t])
                => /\ pc'[t] = "idle"
                   /\ strong' = [strong EXCEPT ![self[t]] = @ - 1]
                   /\ UNCHANGED <<pool, lockHolder, weak>>
          /\ (pc[t] = "in_dec" /\ pc'[t] # pc[t])
                => /\ pc'[t] = cont[t]
                   /\ strong' = [strong EXCEPT ![inner[t]] = @ - 1]
                   /\ UNCHANGED <<pool, lockHolder, weak>>]_vars

\* A release has skipped the removal: its regex is still registered and still
\* owned by another caller.
ReleaseSkipped ==
    \E t \in Threads :
        /\ pc[t] = "dr_dec"
        /\ self[t] \in pool
        /\ handles[self[t]] > 0
        /\ strong[self[t]] = 3

\* C17: the entry pool.remove(&self) takes out, found by text equality, is
\* the entry of the very regex being released.
RemovalHitsOwnMatcher ==
    \A t \in Threads : pc[t] = "dr_remove" => Lookup(self[t]) \subseteq {self[t]}

\* C18: from_str compiles before it locks; on a hit the new regex is dropped
\* inside get_or_insert under the lock with a strong count of 1, so its drop
\* neither locks nor removes, and what is returned is a clone of the entry
\* that was there, whose count the clone raises by one.
ParseHitDiscardsTemporary ==
    /\ [](\A t \in Threads :
            /\ pc[t] = "fs_lock" =>
                  /\ regex[t] # NoId
                  /\ strong[regex[t]] = 1
                  /\ lockHolder # t
            /\ cont[t] = "fs_clone" =>
                  /\ pc[t] \in {"in_strong", "in_dec"}
                  /\ lockHolder = t
                  /\ strong[inner[t]] = 1
                  /\ weak[inner[t]] = 0
                  /\ inner[t] \notin pool
                  /\ entry[t] \in pool
                  /\ entry[t] # inner[t]
                  /\ text[entry[t]] = arg[t])
    /\ [][\A t \in Threads :
            /\ (cont[t] = "fs_clone" /\ pc'[t] # pc[t])
                  => UNCHANGED <<pool, lockHolder, weak>>
            /\ (pc[t] = "fs_clone" /\ pc'[t] # pc[t])
                  => /\ strong' = [strong EXCEPT ![entry[t]] = @ + 1]
                     /\ UNCHANGED <<pool, lockHolder>>]_vars

\* from_str hit an entry that a caller owns and is dropping its own regex.
TemporaryDiscarded ==
    \E t \in Threads :
        /\ cont[t] = "fs_clone"
        /\ pc[t] = "in_dec"
        /\ handles[entry[t]] > 0

====
